---- MODULE Spec2Model ----
(***************************************************************************)
(* A model of the expense tracker in app2.py: the process-wide list        *)
(* `transactions`, the handler add_transaction, get_recent_transactions,   *)
(* filter_transactions_by_period, the five views update_charts builds, and *)
(* the wall clock the handlers read with datetime.now().                   *)
(*                                                                         *)
(* Text is a sequence of one-character strings, a date is <<y, m, d>>, and *)
(* a float is a sign and a magnitude counted in units of 2^-56 and held in *)
(* two limbs, rounded to 53 significant bits after every operation, so     *)
(* that sums behave as IEEE-754 doubles do.                                *)
(***************************************************************************)
EXTENDS Integers, Sequences, FiniteSets, TLC

VARIABLES transactions, clock, ns_unit, ret, call, views

vars == <<transactions, clock, ns_unit, ret, call, views>>

\* ------------------------------------------------------------------------
\* Bounds of the model
\* ------------------------------------------------------------------------
MaxStore == 2

MaxTicks == 1

TicksPerDay == 2

\* ------------------------------------------------------------------------
\* The proleptic Gregorian calendar of datetime.date
\* ------------------------------------------------------------------------
IsLeap(y) == (y % 4 = 0) /\ ((y % 100 # 0) \/ (y % 400 = 0))

DaysInMonth(y, m) ==
    IF m = 2 THEN (IF IsLeap(y) THEN 29 ELSE 28)
    ELSE IF m \in {4, 6, 9, 11} THEN 30 ELSE 31

RECURSIVE DaysBeforeMonth(_, _)
DaysBeforeMonth(y, m) ==
    IF m = 1 THEN 0 ELSE DaysBeforeMonth(y, m - 1) + DaysInMonth(y, m - 1)

DaysBeforeYear(y) ==
    (y - 1) * 365 + ((y - 1) \div 4) - ((y - 1) \div 100) + ((y - 1) \div 400)

\* date.toordinal(): 0001-01-01 is day 1
ToOrdinal(dt) == DaysBeforeYear(dt[1]) + DaysBeforeMonth(dt[1], dt[2]) + dt[3]

YearOfOrdinal(n) ==
    CHOOSE y \in (n \div 366)..((n \div 365) + 1) :
        DaysBeforeYear(y) < n /\ n <= DaysBeforeYear(y + 1)

MonthOfDay(y, r) ==
    CHOOSE m \in 1..12 :
        DaysBeforeMonth(y, m) < r /\ r <= DaysBeforeMonth(y, m) + DaysInMonth(y, m)

DateInMonth(y, m, r) == <<y, m, r - DaysBeforeMonth(y, m)>>

DateInYear(y, r) == DateInMonth(y, MonthOfDay(y, r), r)

OrdinalInYear(y, n) == DateInYear(y, n - DaysBeforeYear(y))

\* date.fromordinal()
FromOrdinal(n) == OrdinalInYear(YearOfOrdinal(n), n)

\* date.weekday(): Monday is 0
Weekday(dt) == (ToOrdinal(dt) + 6) % 7

\* ------------------------------------------------------------------------
\* datetime.strptime(date, "%Y-%m-%d")
\* ------------------------------------------------------------------------
Digits == <<"0", "1", "2", "3", "4", "5", "6", "7", "8", "9">>

IsDigit(c) == \E i \in 1..10 : Digits[i] = c

DigitVal(c) == (CHOOSE i \in 1..10 : Digits[i] = c) - 1

Dashes(s) == {i \in 1..Len(s) : s[i] = "-"}

Least(S) == CHOOSE a \in S : \A b \in S : a <= b

Greatest(S) == CHOOSE a \in S : \A b \in S : a >= b

\* %Y is \d\d\d\d
YearField(f) ==
    IF Len(f) = 4 /\ \A i \in 1..4 : IsDigit(f[i])
    THEN DigitVal(f[1]) * 1000 + DigitVal(f[2]) * 100
         + DigitVal(f[3]) * 10 + DigitVal(f[4])
    ELSE -1

\* %m is 1[0-2]|0[1-9]|[1-9] and %d is 3[01]|[12]\d|0[1-9]|[1-9]| [1-9]:
\* one or two digits (for %d the first may be a space) ...
FieldValue(f, space) ==
    IF Len(f) = 1 /\ IsDigit(f[1]) THEN DigitVal(f[1])
    ELSE IF Len(f) = 2 /\ IsDigit(f[1]) /\ IsDigit(f[2])
         THEN DigitVal(f[1]) * 10 + DigitVal(f[2])
    ELSE IF Len(f) = 2 /\ space /\ f[1] = " " /\ IsDigit(f[2])
         THEN DigitVal(f[2])
    ELSE -1

\* ... with a value in 1..max
InRange(v, max) == IF v >= 1 /\ v <= max THEN v ELSE -1

ShortField(f, max, space) == InRange(FieldValue(f, space), max)

NoDate == [ok |-> FALSE, date |-> <<0, 0, 0>>]

\* datetime(y, m, d): year 0 and a day the month does not have are refused
BuildDate(y, m, d) ==
    IF y < 1 \/ m < 1 \/ d < 1 THEN NoDate
    ELSE IF d > DaysInMonth(y, m) THEN NoDate
    ELSE [ok |-> TRUE, date |-> <<y, m, d>>]

SplitDate(s, i, j) ==
    BuildDate(YearField(SubSeq(s, 1, i - 1)),
              ShortField(SubSeq(s, i + 1, j - 1), 12, FALSE),
              ShortField(SubSeq(s, j + 1, Len(s)), 31, TRUE))

DateFields(s, ds) ==
    IF Cardinality(ds) # 2 THEN NoDate ELSE SplitDate(s, Least(ds), Greatest(ds))

\* The format's regular expression and the date it builds, on a text: the
\* date, or no match / unconverted data / a date that does not exist
ParseDate(s) == DateFields(s, Dashes(s))

\* strptime on a Python value: "ok", "ValueError" for a text that is no date,
\* "TypeError" for a value that is no str
Strptime(x) ==
    IF x.t # "text" THEN "TypeError"
    ELSE IF ParseDate(x.c).ok THEN "ok" ELSE "ValueError"

\* ------------------------------------------------------------------------
\* float: IEEE-754 binary64 on the values the model uses.  A magnitude is
\* <<hi, lo>> = hi * 2^28 + lo units of 2^-56; every sum or difference of
\* such values is a whole number of units, and Round53 rounds it to 53
\* significant bits, ties to even.
\* ------------------------------------------------------------------------
Base == 2^28

RECURSIVE BitLen(_)
BitLen(h) == IF h = 0 THEN 0 ELSE 1 + BitLen(h \div 2)

MagAdd(a, b) ==
    <<a[1] + b[1] + ((a[2] + b[2]) \div Base), (a[2] + b[2]) % Base>>

MagLess(a, b) == a[1] < b[1] \/ (a[1] = b[1] /\ a[2] < b[2])

\* a - b for a >= b
MagSub(a, b) ==
    IF a[2] >= b[2] THEN <<a[1] - b[1], a[2] - b[2]>>
    ELSE <<a[1] - b[1] - 1, a[2] + Base - b[2]>>

\* m with the remainder rem below the last kept bit, of weight p, rounded off
RoundOff(m, p, rem) ==
    IF (2 * rem > p) \/ (2 * rem = p /\ ((m[2] \div p) % 2 = 1))
    THEN MagAdd(<<m[1], m[2] - rem>>, <<0, p>>)
    ELSE <<m[1], m[2] - rem>>

RoundTo(m, p) == RoundOff(m, p, m[2] % p)

DropBits(m, d) == IF d <= 0 THEN m ELSE RoundTo(m, 2^d)

Round53(m) == DropBits(m, BitLen(m[1]) - 25)

Zero == [s |-> 1, m |-> <<0, 0>>]

FNeg(a) == IF a.m = <<0, 0>> THEN a ELSE [s |-> -a.s, m |-> a.m]

FAdd(a, b) ==
    IF a.s = b.s THEN [s |-> a.s, m |-> Round53(MagAdd(a.m, b.m))]
    ELSE IF a.m = b.m THEN Zero
    ELSE IF MagLess(a.m, b.m) THEN [s |-> b.s, m |-> Round53(MagSub(b.m, a.m))]
    ELSE [s |-> a.s, m |-> Round53(MagSub(a.m, b.m))]

FSub(a, b) == FAdd(a, FNeg(b))

\* x <= 0 on a float
FNonPositive(a) == a.s = -1 \/ a.m = <<0, 0>>

\* ndarray.sum() of fewer than eight values: 0 + v1 + v2 + ... left to right
RECURSIVE ArraySum(_)
ArraySum(vs) ==
    IF vs = <<>> THEN Zero
    ELSE FAdd(ArraySum(SubSeq(vs, 1, Len(vs) - 1)), vs[Len(vs)])

\* The grouped sum of pandas is Kahan's compensated summation, on the state
\* <<sumx, compensation>>:  y = val - compensation;  t = sumx + y;
\* compensation = t - sumx - y;  sumx = t
KahanStore(st, y, t) == <<t, FSub(FSub(t, st[1]), y)>>

KahanAdd(st, y) == KahanStore(st, y, FAdd(st[1], y))

KahanStep(st, val) == KahanAdd(st, FSub(val, st[2]))

RECURSIVE KahanState(_)
KahanState(vs) ==
    IF vs = <<>> THEN <<Zero, Zero>>
    ELSE KahanStep(KahanState(SubSeq(vs, 1, Len(vs) - 1)), vs[Len(vs)])

GroupSum(vs) == KahanState(vs)[1]

\* ------------------------------------------------------------------------
\* Python values handed to the handlers: None, a str held whole (labels), a
\* str held character by character (dates, typed numbers), a float
\* ------------------------------------------------------------------------
NoneValue == [t |-> "NoneType", s |-> "", c |-> <<>>, f |-> Zero]

Str(v) == [t |-> "str", s |-> v, c |-> <<>>, f |-> Zero]

Text(v) == [t |-> "text", s |-> "", c |-> v, f |-> Zero]

Num(v) == [t |-> "float", s |-> "", c |-> <<>>, f |-> v]

\* bool(x)
Truthy(x) ==
    CASE x.t = "NoneType" -> FALSE
      [] x.t = "str" -> x.s # ""
      [] x.t = "text" -> x.c # <<>>
      [] x.t = "float" -> x.f.m # <<0, 0>>

\* ------------------------------------------------------------------------
\* Predefined categories
\* ------------------------------------------------------------------------
EXPENSE_CATEGORIES ==
    <<"Food & Dining", "Transportation", "Shopping", "Entertainment",
      "Bills & Utilities", "Healthcare", "Travel", "Education",
      "Personal Care", "Home & Garden", "Other">>

INCOME_CATEGORIES ==
    <<"Salary", "Freelance", "Business", "Investments",
      "Rental Income", "Gifts", "Other">>

Range(f) == {f[i] : i \in DOMAIN f}

\* The labels in str order, which is the order groupby sorts its keys in
SortedLabels ==
    <<"Bills & Utilities", "Business", "Education", "Entertainment",
      "Food & Dining", "Freelance", "Gift Card", "Gifts", "Healthcare",
      "Home & Garden", "Investments", "Other", "Personal Care",
      "Rental Income", "Salary", "Shopping", "Transportation", "Travel">>

LabelRank(c) == CHOOSE i \in DOMAIN SortedLabels : SortedLabels[i] = c

TypeRank(ty) == IF ty = "Expense" THEN 0 ELSE 1

\* ------------------------------------------------------------------------
\* The wall clock: datetime.now()
\* ------------------------------------------------------------------------
Today(now) == FromOrdinal(now.day)

\* datetime.now().isoformat(): the fields of the text, each of a fixed width
IsoFormat(now) == Today(now) \o <<now.tick>>

\* str < str on two isoformat texts
RECURSIVE TextLess(_, _)
TextLess(a, b) ==
    IF a = <<>> THEN b # <<>>
    ELSE IF b = <<>> THEN FALSE
    ELSE IF a[1] # b[1] THEN a[1] < b[1]
    ELSE TextLess(Tail(a), Tail(b))

\* ------------------------------------------------------------------------
\* pandas: to_datetime and the DataFrame
\* ------------------------------------------------------------------------
\* The dates a datetime64[ns] holds at midnight
NsMin == <<1677, 9, 22>>

NsMax == <<2262, 4, 11>>

OutOfBounds(n) == n < ToOrdinal(NsMin) \/ n > ToOrdinal(NsMax)

Timestamp(p, ns) ==
    IF p.ok /\ ns /\ OutOfBounds(ToOrdinal(p.date)) THEN NoDate ELSE p

\* pd.to_datetime of one text, on texts of the shape year-month-day: a date,
\* or an exception (text that is no date; a date outside the nanosecond range
\* when strings parse to datetime64[ns])
ToDatetime(s, ns) == Timestamp(ParseDate(s), ns)

\* pd.DataFrame(): no columns, no rows
EmptyFrame == [columns |-> FALSE, rows |-> <<>>]

Frame(rows) == [columns |-> TRUE, rows |-> rows]

\* df.empty
Empty(df) == ~df.columns \/ df.rows = <<>>

\* One row of pd.DataFrame(transactions) with its 'date' a date: the row
\* keeps its position as the index
DatedRow(t, i, ns) ==
    [index |-> i - 1, id |-> t.id, type |-> t.type, category |-> t.category,
     amount |-> t.amount, description |-> t.description,
     date |-> ToDatetime(t.date, ns).date, timestamp |-> t.timestamp]

DatedRows(txs, ns) == [i \in 1..Len(txs) |-> DatedRow(txs[i], i, ns)]

\* Whether pd.to_datetime(df['date']) returns rather than raises
ColumnParses(txs, ns) == \A i \in 1..Len(txs) : ToDatetime(txs[i].date, ns).ok

Amounts(rows) == [i \in 1..Len(rows) |-> rows[i].amount]

TypeOf(rows, ty) == {i \in 1..Len(rows) : rows[i].type = ty}

RECURSIVE SortedSeq(_)
SortedSeq(S) ==
    IF S = {} THEN <<>> ELSE <<Least(S)>> \o SortedSeq(S \ {Least(S)})

\* The rows at the places `at`, a sorted sequence of indices
Take(rows, at) == [j \in 1..Len(at) |-> rows[at[j]]]

\* df[df['type'] == ty]
OfType(rows, ty) == Take(rows, SortedSeq(TypeOf(rows, ty)))

Group(members) == [first |-> members[1], amount |-> GroupSum(Amounts(members))]

Groups(rows, rank, order) ==
    [k \in 1..Len(order) |->
        Group(Take(rows, SortedSeq({i \in 1..Len(rows) : rank[i] = order[k]})))]

\* df.groupby(keys)['amount'].sum().reset_index(): one row per key that
\* occurs, in key order, with the first member to name the key.  rank[i] is
\* the place of row i's key in that order.
GroupBy(rows, rank) == Groups(rows, rank, SortedSeq(Range(rank)))

\* ------------------------------------------------------------------------
\* The transaction store
\* ------------------------------------------------------------------------
\* A numbering that starts at zero: the variant the numbering is told from
NewIdFromZero(txs) == Len(txs)

\* 'id': len(transactions) + 1
NewId(txs) == Len(txs) + 1

\* A test of the amount that lets the amounts below zero pass
InvalidAmountUnsigned(amount) == ~Truthy(amount)

\* not amount or amount <= 0, on a value on which <= is defined
InvalidAmount(amount) ==
    ~Truthy(amount) \/ (amount.t = "float" /\ FNonPositive(amount.f))

\* A store that puts the new record first
StorePrepend(txs, t) == <<t>> \o txs

\* transactions.append(transaction)
StoreAppend(txs, t) == Append(txs, t)

DateOutcome(parsed) ==
    IF parsed = "ValueError" THEN "Please enter date in YYYY-MM-DD format"
    ELSE IF parsed = "TypeError" THEN "Error"
    ELSE "added successfully"

\* What the body of add_transaction comes to: the message it returns, which
\* tells whether it reached the append.  A text amount that is not empty
\* makes amount <= 0 raise TypeError, and a date that is no str makes strptime
\* raise TypeError: both land in the outer except.
Outcome(category, amount, date) ==
    IF amount.t = "text" /\ Truthy(amount) THEN "Error"
    ELSE IF InvalidAmount(amount) THEN "Please enter a valid amount"
    ELSE IF ~Truthy(category) THEN "Please select a category"
    ELSE DateOutcome(Strptime(date))

NewTransaction(txs, now, transaction_type, category, amount, description, date) ==
    [id |-> NewId(txs),
     type |-> transaction_type,
     category |-> category.s,
     amount |-> amount.f,
     description |-> IF Truthy(description) THEN description.s
                     ELSE "No description",
     date |-> date.c,
     timestamp |-> IsoFormat(now)]

\* ------------------------------------------------------------------------
\* get_recent_transactions
\* ------------------------------------------------------------------------
RecentLimit == 10

Reverse(s) == [i \in 1..Len(s) |-> s[Len(s) + 1 - i]]

InsertAt(sorted, x, k) ==
    SubSeq(sorted, 1, k) \o <<x>> \o SubSeq(sorted, k + 1, Len(sorted))

\* x goes behind every row that is not greater
Insert(sorted, x) ==
    InsertAt(sorted, x,
             Cardinality({i \in 1..Len(sorted) :
                             ~TextLess(x.timestamp, sorted[i].timestamp)}))

\* A stable ascending sort on 'timestamp': what the default sort does on the
\* fewer than sixteen rows of the model, where it is an insertion sort
RECURSIVE StableAscending(_)
StableAscending(rows) ==
    IF rows = <<>> THEN <<>>
    ELSE Insert(StableAscending(SubSeq(rows, 1, Len(rows) - 1)), rows[Len(rows)])

\* df.sort_values('timestamp', ascending=False): the rows reversed, sorted
\* ascending, and reversed again
SortValuesDescending(rows) == Reverse(StableAscending(Reverse(rows)))

\* df.head(n)
HeadRows(rows, n) == SubSeq(rows, 1, IF Len(rows) < n THEN Len(rows) ELSE n)

\* The columns shown, but for 'Amount', the text made of the amount; 'Date'
\* is the date read, written anew year-month-day; the rows keep the index of
\* the frame
Display(df) ==
    [i \in 1..Len(df) |->
        [index |-> df[i].index, Date |-> df[i].date, Type |-> df[i].type,
         Category |-> df[i].category, Description |-> df[i].description]]

\* The table: empty when the store is empty and when anything raises (a
\* 'date' that to_datetime refuses)
get_recent_transactions(txs, ns) ==
    IF txs = <<>> THEN <<>>
    ELSE IF ~ColumnParses(txs, ns) THEN <<>>
    ELSE Display(HeadRows(SortValuesDescending(DatedRows(txs, ns)), RecentLimit))

\* ------------------------------------------------------------------------
\* filter_transactions_by_period
\* ------------------------------------------------------------------------
\* df[df['date'].dt.date >= start]
OnOrAfter(rows, start) ==
    Take(rows, SortedSeq({i \in 1..Len(rows) : ToOrdinal(rows[i].date) >= start}))

\* df[(df['date'].dt.date >= start) & (df['date'].dt.date <= end)]
Between(rows, start, end) ==
    Take(rows, SortedSeq({i \in 1..Len(rows) :
                             /\ ToOrdinal(rows[i].date) >= start
                             /\ ToOrdinal(rows[i].date) <= end}))

\* df[df['date'].dt.date == today]
On(rows, day) == Take(rows, SortedSeq({i \in 1..Len(rows) : rows[i].date = day}))

\* today - timedelta(days=today.weekday()), as an ordinal
StartWeek(today) == ToOrdinal(today) - Weekday(today)

\* today.replace(day=1), as an ordinal
StartMonth(today) == ToOrdinal(<<today[1], today[2], 1>>)

\* today.replace(month=1, day=1), as an ordinal
StartYear(today) == ToOrdinal(<<today[1], 1, 1>>)

\* The custom range once both bounds went through pd.to_datetime: one that
\* raised takes the whole function to its except
CustomRange(df, s, e) ==
    IF ~s.ok \/ ~e.ok THEN EmptyFrame
    ELSE Frame(Between(df, ToOrdinal(s.date), ToOrdinal(e.date)))

Period(df, today, ns, period, start_date, end_date) ==
    CASE period = "Today" -> Frame(On(df, today))
      [] period = "This Week" -> Frame(OnOrAfter(df, StartWeek(today)))
      [] period = "This Month" -> Frame(OnOrAfter(df, StartMonth(today)))
      [] period = "This Year" -> Frame(OnOrAfter(df, StartYear(today)))
      [] period = "Custom Range" ->
            IF Truthy(start_date) /\ Truthy(end_date)
            THEN CustomRange(df, ToDatetime(start_date.c, ns),
                             ToDatetime(end_date.c, ns))
            ELSE Frame(df)
      [] OTHER -> Frame(df)

filter_transactions_by_period(txs, today, ns, period, start_date, end_date) ==
    IF txs = <<>> THEN EmptyFrame
    ELSE IF ~ColumnParses(txs, ns) THEN EmptyFrame
    ELSE Period(DatedRows(txs, ns), today, ns, period, start_date, end_date)

\* ------------------------------------------------------------------------
\* The five views: what each hands to the renderer, "no data" for its
\* placeholder, "KeyError" when df['type'] finds no such column
\* ------------------------------------------------------------------------
NoData == [kind |-> "no data"]

KeyError == [kind |-> "KeyError"]

Summary(total_income, total_expenses, count) ==
    [kind |-> "summary",
     total_income |-> total_income,
     total_expenses |-> total_expenses,
     net_balance |-> FSub(total_income, total_expenses),
     count |-> count]

create_summary_cards(df) ==
    IF Empty(df) THEN NoData
    ELSE Summary(ArraySum(Amounts(OfType(df.rows, "Income"))),
                 ArraySum(Amounts(OfType(df.rows, "Expense"))),
                 Len(df.rows))

CategoryRanks(rows) == [i \in 1..Len(rows) |-> LabelRank(rows[i].category)]

CategoryTotals(g) ==
    [k \in 1..Len(g) |-> [category |-> g[k].first.category, amount |-> g[k].amount]]

Pie(rows) ==
    IF rows = <<>> THEN NoData
    ELSE [kind |-> "pie",
          category_totals |-> CategoryTotals(GroupBy(rows, CategoryRanks(rows)))]

create_expense_pie_chart(df) ==
    IF ~df.columns THEN KeyError ELSE Pie(OfType(df.rows, "Expense"))

create_income_pie_chart(df) ==
    IF ~df.columns THEN KeyError ELSE Pie(OfType(df.rows, "Income"))

DateTypeRanks(rows) ==
    [i \in 1..Len(rows) |-> ToOrdinal(rows[i].date) * 2 + TypeRank(rows[i].type)]

DailyTotals(g) ==
    [k \in 1..Len(g) |->
        [date |-> g[k].first.date, type |-> g[k].first.type,
         amount |-> g[k].amount]]

\* One trace for a type that has points
Trace(points, ty) ==
    IF points = <<>> THEN <<>> ELSE <<[name |-> ty, points |-> points]>>

Trend(daily_totals) ==
    [kind |-> "trend", daily_totals |-> daily_totals,
     traces |-> Trace(OfType(daily_totals, "Income"), "Income")
                \o Trace(OfType(daily_totals, "Expense"), "Expense")]

create_trend_chart(df) ==
    IF Empty(df) THEN NoData
    ELSE Trend(DailyTotals(GroupBy(df.rows, DateTypeRanks(df.rows))))

CategoryTypeRanks(rows) ==
    [i \in 1..Len(rows) |->
        LabelRank(rows[i].category) * 2 + TypeRank(rows[i].type)]

CategoryTypeTotals(g) ==
    [k \in 1..Len(g) |->
        [category |-> g[k].first.category, type |-> g[k].first.type,
         amount |-> g[k].amount]]

create_bar_chart(df) ==
    IF Empty(df) THEN NoData
    ELSE [kind |-> "bar",
          category_totals |->
             CategoryTypeTotals(GroupBy(df.rows, CategoryTypeRanks(df.rows)))]

\* ------------------------------------------------------------------------
\* The state after the module has loaded: an empty store, no call running
\* ------------------------------------------------------------------------
Idle == [pc |-> 0]

TypeOK ==
    /\ ns_unit \in BOOLEAN
    /\ clock.tick \in 0..(TicksPerDay - 1)
    /\ call.pc \in {0, 2, 3, 4, 5, 6}
    /\ Len(views) = (IF call.pc = 0 THEN 0 ELSE call.pc - 1)
    /\ \A i \in 1..Len(transactions) : transactions[i].id \in Nat

InitAt(days) ==
    /\ transactions = <<>>
    /\ clock \in [day : days, tick : {0}]
    /\ ns_unit \in BOOLEAN
    /\ ret = [fn |-> "none"]
    /\ call = Idle
    /\ views = <<>>

\* ------------------------------------------------------------------------
\* The handlers.  A handler runs when no other does (one session); the clock
\* runs on its own.
\* ------------------------------------------------------------------------
\* ret keeps, of a call of add_transaction, what it was called with beside
\* what it returned
Added(outcome, t, args) ==
    /\ transactions' = IF outcome = "added successfully"
                       THEN StoreAppend(transactions, t) ELSE transactions
    /\ ret' = [fn |-> "add_transaction", args |-> args, msg |-> outcome,
               recent |-> get_recent_transactions(transactions', ns_unit)]

add_transaction(transaction_type, category, amount, description, date) ==
    /\ call.pc = 0
    /\ Added(Outcome(category, amount, date),
             NewTransaction(transactions, clock, transaction_type, category,
                            amount, description, date),
             <<transaction_type, category, amount, description, date>>)
    /\ UNCHANGED <<clock, ns_unit, call, views>>

\* The table read on its own, as the page does when it is built
RecentTransactions ==
    /\ call.pc = 0
    /\ ret' = [fn |-> "get_recent_transactions",
               recent |-> get_recent_transactions(transactions, ns_unit)]
    /\ UNCHANGED <<transactions, clock, ns_unit, call, views>>

\* The frame a view filters for itself: it reads the store and the clock anew
Filtered ==
    filter_transactions_by_period(transactions, Today(clock), ns_unit,
                                  call.period, call.start_date, call.end_date)

\* A view that raises ends the call, for update_charts has no handler of its
\* own; any other is kept, with the frame it was made of, for the tuple
Viewed(df, out, pc) ==
    IF out = KeyError
    THEN /\ ret' = [fn |-> "update_charts", raised |-> out.kind, value |-> <<>>]
         /\ call' = Idle
         /\ views' = <<>>
    ELSE /\ views' = Append(views, [df |-> df, out |-> out])
         /\ call' = [call EXCEPT !.pc = pc]
         /\ ret' = ret

Summarised(df, period, start_date, end_date) ==
    /\ views' = <<[df |-> df, out |-> create_summary_cards(df)]>>
    /\ call' = [pc |-> 2, period |-> period,
                start_date |-> start_date, end_date |-> end_date]

\* update_charts is called and evaluates create_summary_cards; the call has
\* returned nothing yet
update_charts(period, start_date, end_date) ==
    /\ call.pc = 0
    /\ Summarised(filter_transactions_by_period(transactions, Today(clock), ns_unit,
                                                period, start_date, end_date),
                  period, start_date, end_date)
    /\ ret' = [fn |-> "none"]
    /\ UNCHANGED <<transactions, clock, ns_unit>>

ExpensePieOf(df) == Viewed(df, create_expense_pie_chart(df), 3)

ExpensePie ==
    /\ call.pc = 2
    /\ ExpensePieOf(Filtered)
    /\ UNCHANGED <<transactions, clock, ns_unit>>

IncomePieOf(df) == Viewed(df, create_income_pie_chart(df), 4)

IncomePie ==
    /\ call.pc = 3
    /\ IncomePieOf(Filtered)
    /\ UNCHANGED <<transactions, clock, ns_unit>>

TrendChartOf(df) == Viewed(df, create_trend_chart(df), 5)

TrendChart ==
    /\ call.pc = 4
    /\ TrendChartOf(Filtered)
    /\ UNCHANGED <<transactions, clock, ns_unit>>

BarChartOf(df) == Viewed(df, create_bar_chart(df), 6)

BarChart ==
    /\ call.pc = 5
    /\ BarChartOf(Filtered)
    /\ UNCHANGED <<transactions, clock, ns_unit>>

\* update_charts returns the tuple of the five
ReturnCharts ==
    /\ call.pc = 6
    /\ ret' = [fn |-> "update_charts", raised |-> "",
               value |-> [i \in 1..Len(views) |-> views[i].out]]
    /\ call' = Idle
    /\ views' = <<>>
    /\ UNCHANGED <<transactions, clock, ns_unit>>

\* The clock moves on by one reading
Tick ==
    /\ clock' = IF clock.tick + 1 < TicksPerDay
                THEN [clock EXCEPT !.tick = clock.tick + 1]
                ELSE [day |-> clock.day + 1, tick |-> 0]
    /\ UNCHANGED <<transactions, ns_unit, ret, call, views>>

\* Readings of the clock since the start of day `start`
Elapsed(start) == (clock.day - start) * TicksPerDay + clock.tick

Charts == ExpensePie \/ IncomePie \/ TrendChart \/ BarChart \/ ReturnCharts

\* ------------------------------------------------------------------------
\* Spec: the store under every kind of input add_transaction tells apart
\* ------------------------------------------------------------------------
Types == {"Expense", "Income"}

F01 == [s |-> 1, m |-> <<26843545, 161061274>>]

F02 == [s |-> 1, m |-> <<53687091, 53687092>>]

F03 == [s |-> 1, m |-> <<80530636, 214748364>>]

StoreDay == ToOrdinal(<<2024, 3, 13>>)

GoodDate == Text(<<"2", "0", "2", "4", "-", "0", "3", "-", "1", "0">>)

\* Inputs add_transaction accepts: both types, a category of the type's list
\* and one of neither list, with and without a description, a date written
\* without its zeros
AcceptedInputs ==
    {<<"Expense", Str("Food & Dining"), Num(F01), NoneValue, GoodDate>>,
     <<"Income", Str("Salary"), Num(F02), Str("pay"), GoodDate>>,
     <<"Expense", Str("Gift Card"), Num(F01), Str("lunch"), Text(<<"2", "0", "2", "4", "-", "3", "-", "5">>)>>}

\* Inputs with an amount that is missing, zero, negative or no number
BadAmounts ==
    {<<"Expense", Str("Food & Dining"), a, NoneValue, GoodDate>> :
        a \in {Num(Zero), Num(FNeg(F01)), NoneValue, Text(<<"a", "b", "c">>)}}

\* Inputs with no category
BadCategories ==
    {<<"Income", c, Num(F01), Str("lunch"), GoodDate>> : c \in {Str(""), NoneValue}}

\* Inputs with a date that is no date, not of the format, empty or missing
BadDates ==
    {<<"Expense", Str("Food & Dining"), Num(F01), NoneValue, dt>> :
        dt \in {Text(<<"2", "0", "2", "4", "-", "0", "2", "-", "3", "0">>), Text(<<"1", "0", "/", "0", "3", "/", "2", "0", "2", "4">>), Text(<<>>), NoneValue}}

\* Inputs wrong in two places
BadTwice ==
    {<<"Expense", Str(""), Text(<<"a", "b", "c">>), NoneValue, GoodDate>>,
     <<"Income", Str("Gift Card"), NoneValue, NoneValue, Text(<<>>)>>}

StoreInputs == AcceptedInputs \cup BadAmounts \cup BadCategories \cup BadDates \cup BadTwice

Init == InitAt({StoreDay})

AddStore ==
    /\ Len(transactions) < MaxStore
    /\ \E in \in StoreInputs : add_transaction(in[1], in[2], in[3], in[4], in[5])

ChartsOnLoad == update_charts("This Month", NoneValue, NoneValue)

TickStore == Elapsed(StoreDay) < MaxTicks /\ Tick

Next == AddStore \/ RecentTransactions \/ ChartsOnLoad \/ Charts \/ TickStore

Spec == Init /\ [][Next]_vars

\* ------------------------------------------------------------------------
\* Properties of the store
\* ------------------------------------------------------------------------
\* Inputs the specification calls valid: an amount that is a number above
\* zero, a category that is given, a date that reads as year-month-day
ValidInput(category, amount, date) ==
    /\ amount.t = "float" /\ amount.f.s = 1 /\ amount.f.m # <<0, 0>>
    /\ category.t = "str" /\ category.s # ""
    /\ date.t = "text" /\ ParseDate(date.c).ok

RECURSIVE MaxId(_)
MaxId(txs) ==
    IF txs = <<>> THEN 0
    ELSE Greatest({txs[Len(txs)].id, MaxId(SubSeq(txs, 1, Len(txs) - 1))})

ErrorMessages ==
    {"Error", "Please enter a valid amount", "Please select a category",
     "Please enter date in YYYY-MM-DD format"}

IdsIncrease ==
    \A i, j \in 1..Len(transactions) :
        i < j => transactions[i].id < transactions[j].id

\* A step of add_transaction: the one step that starts at rest, leaves the
\* clock alone and ends with add_transaction having returned
AddStep == call.pc = 0 /\ clock' = clock /\ ret'.fn = "add_transaction"

ValidArgs(args) == ValidInput(args[2], args[3], args[5])

ValidAddNumbers ==
    (AddStep /\ ValidArgs(ret'.args))
    => /\ Len(transactions') = Len(transactions) + 1
       /\ transactions'[Len(transactions')].id = MaxId(transactions) + 1
       /\ transactions'[Len(transactions')].id > 0

\* C1: from the empty store, through any mix of valid and invalid calls, a
\* call of add_transaction with valid inputs makes the store one record
\* longer and gives the new record the id that follows the greatest id stored
\* (1 in the empty store); the ids stored are unique and increase strictly
\* in insertion order.
C1_ValidAddTakesNextId ==
    [](IdsIncrease) /\ [][ValidAddNumbers]_vars

\* A valid call has gone through on a store that held records already
C1_Witness ==
    /\ Len(transactions) >= 2
    /\ ret.fn = "add_transaction"
    /\ ret.msg = "added successfully"
    /\ transactions[Len(transactions)].id = Len(transactions)

InvalidAddRefused ==
    (AddStep /\ ~ValidArgs(ret'.args))
    => /\ transactions' = transactions
       /\ ret'.msg \in ErrorMessages

\* C2: a call of add_transaction that fails validation (amount missing, no
\* number or not above zero; category empty or absent; date that does not
\* read as YYYY-MM-DD) returns an error message, and the store after it is
\* the store before it.
C2_InvalidAddLeavesStore ==
    [][InvalidAddRefused]_vars

\* A call has been refused for its amount on a store that holds records
C2_Witness ==
    /\ Len(transactions) >= 1
    /\ ret.fn = "add_transaction"
    /\ ret.msg = "Please enter a valid amount"

CategoryList(ty) ==
    IF ty = "Expense" THEN Range(EXPENSE_CATEGORIES) ELSE Range(INCOME_CATEGORIES)

\* C3: every stored transaction has a category of the list of its type
\* (EXPENSE_CATEGORIES for Expense, INCOME_CATEGORIES for Income), for
\* add_transaction refuses any other, such as "Gift Card" for an Expense.
C3_CategoryOfType ==
    \A i \in 1..Len(transactions) :
        transactions[i].category \in CategoryList(transactions[i].type)

StoreGrowsByAdd ==
    transactions' # transactions
    => /\ AddStep
       /\ ValidArgs(ret'.args)
       /\ ret'.msg = "added successfully"
       /\ Len(transactions') = Len(transactions) + 1
       /\ SubSeq(transactions', 1, Len(transactions)) = transactions

\* Every other step: get_recent_transactions, update_charts and each of its
\* views with the filter it runs, the clock
ReadsLeaveStore == ~AddStep => transactions' = transactions

\* C9: the store changes only by a successful add_transaction, which appends
\* one record and leaves the records before it as they were and where they
\* were; get_recent_transactions, the filter and the summary and chart
\* computations leave the store as it is.
C9_StoreAppendOnly ==
    [][StoreGrowsByAdd /\ ReadsLeaveStore]_vars

\* The charts have been computed over a store that grew record by record
C9_Witness ==
    /\ Len(transactions) >= 2
    /\ ret.fn = "update_charts"
    /\ ret.raised = ""

\* ------------------------------------------------------------------------
\* SpecCharts: update_charts under every period and every kind of custom
\* bound, on stores of dates around the turn of a week, a month and a year,
\* with the clock running from Sunday 2023-12-31 into Monday 2024-01-01
\* ------------------------------------------------------------------------
MaxChartStore == 2

MaxChartTicks == 2

ChartDay == ToOrdinal(<<2023, 12, 31>>)

\* Dates before the month, before the week, on its Monday, today, tomorrow,
\* and the last date strptime reads
ChartDates ==
    {Text(<<"2", "0", "2", "3", "-", "1", "1", "-", "3", "0">>), Text(<<"2", "0", "2", "3", "-", "1", "2", "-", "2", "4">>), Text(<<"2", "0", "2", "3", "-", "1", "2", "-", "2", "5">>),
     Text(<<"2", "0", "2", "3", "-", "1", "2", "-", "3", "1">>), Text(<<"2", "0", "2", "4", "-", "0", "1", "-", "0", "1">>), Text(<<"9", "9", "9", "9", "-", "1", "2", "-", "3", "1">>)}

ChartAdds ==
    {<<"Expense", Str("Food & Dining"), Num(F01), NoneValue, d>> : d \in ChartDates}
    \cup {<<"Income", Str("Salary"), Num(F02), NoneValue, Text(<<"2", "0", "2", "3", "-", "1", "2", "-", "3", "1">>)>>}

RangeStart == Text(<<"2", "0", "2", "3", "-", "1", "2", "-", "2", "4">>)

RangeEnd == Text(<<"2", "0", "2", "3", "-", "1", "2", "-", "3", "1">>)

\* Bounds missing (None at load, "" from an empty box), given, given the
\* wrong way round, and given as text that is no date
CustomBounds ==
    {<<NoneValue, NoneValue>>, <<RangeStart, NoneValue>>, <<Text(<<>>), RangeEnd>>,
     <<RangeStart, RangeEnd>>, <<RangeEnd, RangeStart>>,
     <<Text(<<"a", "b", "c">>), RangeEnd>>, <<RangeStart, Text(<<"2", "0", "2", "3", "-", "0", "2", "-", "3", "0">>)>>}

Periods == {"Today", "This Week", "This Month", "This Year", "All Time"}

ChartInputs ==
    {<<p, NoneValue, NoneValue>> : p \in Periods}
    \cup {<<"Custom Range", b[1], b[2]>> : b \in CustomBounds}

InitCharts == InitAt({ChartDay})

AddCharts ==
    /\ Len(transactions) < MaxChartStore
    /\ \E in \in ChartAdds : add_transaction(in[1], in[2], in[3], in[4], in[5])

UpdateCharts == \E in \in ChartInputs : update_charts(in[1], in[2], in[3])

TickCharts == Elapsed(ChartDay) < MaxChartTicks /\ Tick

NextCharts == AddCharts \/ UpdateCharts \/ Charts \/ TickCharts

SpecCharts == InitCharts /\ [][NextCharts]_vars

\* ------------------------------------------------------------------------
\* Properties of update_charts
\* ------------------------------------------------------------------------
\* C4: on the empty store update_charts, whatever the period and the custom
\* bounds, raises nothing and returns "no data" for the summary and for each
\* of the four views.
C4_EmptyStoreNoData ==
    (transactions = <<>> /\ ret.fn = "update_charts")
    => /\ ret.raised = ""
       /\ Len(ret.value) = 5
       /\ \A i \in 1..Len(ret.value) : ret.value[i] = NoData

\* The step in which update_charts is called and filters for its summary
FilterStep == call.pc = 0 /\ call'.pc = 2

\* date.weekday() is 0 on a Monday, and day 1 is a Monday
LastMonday(today) ==
    CHOOSE m \in (ToOrdinal(today) - 6)..ToOrdinal(today) : (m + 6) % 7 = 0

DateLE(a, b) ==
    \/ a[1] < b[1]
    \/ a[1] = b[1] /\ a[2] < b[2]
    \/ a[1] = b[1] /\ a[2] = b[2] /\ a[3] <= b[3]

Given(bound) == bound.t = "text" /\ bound.c # <<>>

BothGiven(c) == Given(c.start_date) /\ Given(c.end_date)

BoundsRead(c) ==
    (c.period = "Custom Range" /\ BothGiven(c))
    => ParseDate(c.start_date.c).ok /\ ParseDate(c.end_date.c).ok

\* The range predicate of a period on a date d
InPeriod(d, today, c) ==
    CASE c.period = "Today" -> d = today
      [] c.period = "This Week" -> ToOrdinal(d) >= LastMonday(today)
      [] c.period = "This Month" -> DateLE(<<today[1], today[2], 1>>, d)
      [] c.period = "This Year" -> d[1] >= today[1]
      [] c.period = "Custom Range" /\ BothGiven(c) ->
            /\ DateLE(ParseDate(c.start_date.c).date, d)
            /\ DateLE(d, ParseDate(c.end_date.c).date)
      [] OTHER -> TRUE

FrameIds(df) == {df.rows[k].id : k \in 1..Len(df.rows)}

Matching(txs, today, c) ==
    {txs[i].id : i \in {k \in 1..Len(txs) :
                           InPeriod(ParseDate(txs[k].date).date, today, c)}}

\* C5: on a store that is not empty the filter keeps a transaction iff its
\* date is today for "Today"; is on or after the last Monday, the first of
\* the month, the first of January for "This Week", "This Month", "This
\* Year", with no upper bound; lies between the two bounds for "Custom Range"
\* with both given; and keeps every transaction for "Custom Range" with a
\* bound missing and for any other period name.
C5_FilterKeepsPeriod ==
    [][(FilterStep /\ transactions # <<>> /\ BoundsRead(call'))
        => FrameIds(views'[1].df) = Matching(transactions, Today(clock), call')]_vars

\* What a query that read its bounds and matched nothing shows
NoMatchSummary == create_summary_cards(Frame(<<>>))

\* C6: on a store that is not empty, a "Custom Range" with a bound that is
\* given and is no date ends in an error outcome that differs from the
\* outcome of a query that matched no transaction.
C6_BadBoundToldApart ==
    [][(FilterStep /\ transactions # <<>> /\ call'.period = "Custom Range"
            /\ BothGiven(call') /\ ~BoundsRead(call'))
        => views'[1].out # NoMatchSummary]_vars

\* C10: within one call of update_charts the summary and the four views are
\* made of the same filtered set: no add and no change of date comes between
\* two of the five computations.
C10_ViewsOfOneFrame ==
    \A i, j \in 1..Len(views) : views[i].df = views[j].df

\* ------------------------------------------------------------------------
\* SpecTotals: the totals of update_charts on stores of amounts 0.1, 0.2 and
\* 0.3 in a few categories, all of one date within every period asked for
\* ------------------------------------------------------------------------
MaxTotals == 3

TotalsAdds ==
    {<<"Expense", Str(c), Num(a), NoneValue, GoodDate>> :
        c \in {"Food & Dining", "Transportation"}, a \in {F01, F02, F03}}
    \cup {<<"Income", Str("Salary"), Num(F01), NoneValue, GoodDate>>,
          <<"Income", Str("Other"), Num(F02), NoneValue, GoodDate>>,
          <<"Expense", Str("Other"), Num(F03), NoneValue, GoodDate>>}

TotalsInputs ==
    {<<"This Month", NoneValue, NoneValue>>, <<"Custom Range", GoodDate, GoodDate>>}

InitTotals == InitAt({StoreDay})

AddTotals ==
    /\ Len(transactions) < MaxTotals
    /\ \E in \in TotalsAdds : add_transaction(in[1], in[2], in[3], in[4], in[5])

UpdateTotals == \E in \in TotalsInputs : update_charts(in[1], in[2], in[3])

NextTotals == AddTotals \/ UpdateTotals \/ Charts

SpecTotals == InitTotals /\ [][NextTotals]_vars

\* ------------------------------------------------------------------------
\* Properties of the totals
\* ------------------------------------------------------------------------
PieAmounts(out) ==
    IF out.kind = "pie"
    THEN [k \in 1..Len(out.category_totals) |-> out.category_totals[k].amount]
    ELSE <<>>

PieCategories(out) ==
    IF out.kind = "pie"
    THEN [k \in 1..Len(out.category_totals) |-> out.category_totals[k].category]
    ELSE <<>>

Orders(n) == {f \in [1..n -> 1..n] : \A i, j \in 1..n : f[i] = f[j] => i = j}

\* The amounts add up to the total, taken in some order
Conserved(amounts, total) ==
    \E f \in Orders(Len(amounts)) :
        ArraySum([k \in 1..Len(amounts) |-> amounts[f[k]]]) = total

OncePerCategory(categories, rows, ty) ==
    /\ Range(categories) = {rows[i].category : i \in TypeOf(rows, ty)}
    /\ Len(categories) = Cardinality(Range(categories))

\* C7: over one filtered set the expense category totals add up to
\* total_expenses and the income category totals to total_income, each
\* category with a transaction of the type is there once and no other is.
C7_CategoryTotalsConserved ==
    (/\ call.pc = 6
     /\ views[1].out.kind = "summary"
     /\ views[2].df = views[1].df
     /\ views[3].df = views[1].df)
    => /\ Conserved(PieAmounts(views[2].out), views[1].out.total_expenses)
       /\ Conserved(PieAmounts(views[3].out), views[1].out.total_income)
       /\ OncePerCategory(PieCategories(views[2].out), views[1].df.rows, "Expense")
       /\ OncePerCategory(PieCategories(views[3].out), views[1].df.rows, "Income")

\* ------------------------------------------------------------------------
\* SpecRecent: the table of recent transactions on stores of up to eleven
\* records, added at the same and at different readings of the clock
\* ------------------------------------------------------------------------
MaxRecent == 11

MaxRecentTicks == 2

RecentAdds == {<<"Expense", Str("Food & Dining"), Num(F01), NoneValue, GoodDate>>}

InitRecent == InitAt({StoreDay})

AddRecent ==
    /\ Len(transactions) < MaxRecent
    /\ \E in \in RecentAdds : add_transaction(in[1], in[2], in[3], in[4], in[5])

TickRecent == Elapsed(StoreDay) < MaxRecentTicks /\ Tick

NextRecent == AddRecent \/ RecentTransactions \/ TickRecent

SpecRecent == InitRecent /\ [][NextRecent]_vars

\* ------------------------------------------------------------------------
\* Properties of the table
\* ------------------------------------------------------------------------
Shown(n) == IF n < 10 THEN n ELSE 10

\* C8: get_recent_transactions returns the min(10, n) records inserted last,
\* the later timestamp first and of two equal timestamps the greater id
\* first: the record at place k of the table is the k-th from the end of the
\* store.
C8_RecentNewestFirst ==
    ret.fn \in {"get_recent_transactions", "add_transaction"}
    => /\ Len(ret.recent) = Shown(Len(transactions))
       /\ \A k \in 1..Len(ret.recent) :
             ret.recent[k].index = Len(transactions) - k

====
